---- MODULE Spec2Model ----
(***************************************************************************)
(* Model of the audio pipeline and playback controller of the Audio News   *)
(* Summarizer (src/App.tsx, src/services/geminiService.ts).                *)
(*                                                                         *)
(* The React component state (useState / useRef cells) is the state of the *)
(* model.  Every event handler runs to its next await atomically, because  *)
(* the browser is single-threaded; the awaits of handleSubmit and the      *)
(* device callbacks (ended event, resume completion) are separate steps.   *)
(***************************************************************************)
EXTENDS Integers, Sequences, FiniteSets, TLC

\* ---------------------------------------------------------------- bounds
MaxRuns == 2          \* accepted pipeline runs explored
MaxSources == 2       \* AudioBufferSourceNode instances explored
MaxBytes == 2         \* longest raw PCM payload, in bytes
MaxRawLen == 13       \* longest raw buffer given to decodeAudioData on its own
MaxChannels == 3      \* most channels given to decodeAudioData on its own

\* ------------------------------------------------------ program constants
SAMPLE_RATE == 24000
NUM_CHANNELS == 1

NULL == 0                       \* a ref that holds no object
NoError == "<null>"             \* error === null
NoBuffer == [id |-> 0, length |-> 0, numberOfChannels |-> 0, sampleRate |-> 0,
             channelData |-> <<>>]

MsgInvalidUrl == "Please enter a valid URL."
MsgSummary == "Failed to get summary from the article URL."
MsgSpeech == "Failed to convert summary to audio."
MsgNoAudio == "Failed to generate audio."
MsgDecode == "DecodeError"
MsgConversion == "ConversionError"

\* ------------------------------------------------------------ input sets
Urls == {" ", "https://a"}      \* a blank and a non-blank url; the field starts as ""
SummaryResults == {"throw", "text"}
SpeechResponses ==
    {[kind |-> "throw", valid |-> FALSE, len |-> 0],
     [kind |-> "undefined", valid |-> FALSE, len |-> 0],
     [kind |-> "empty", valid |-> FALSE, len |-> 0]}
    \cup [kind : {"data"}, valid : BOOLEAN, len : 1..MaxBytes]
CtxStates == {"suspended", "running"}

VARIABLES
    url, summary, isLoading, error, audioBuffer, isPlaying,   \* useState
    audioContextRef, audioSourceRef,                          \* useRef
    ctxState, resumePending, ctxCreated,                      \* the AudioContext
    sources,                                                  \* the source nodes created so far
    pc, run, runs,                                            \* position of handleSubmit
    lastOp, calls, pre                                        \* the latest step and what it called

vars == <<url, summary, isLoading, error, audioBuffer, isPlaying,
          audioContextRef, audioSourceRef, ctxState, resumePending, ctxCreated,
          sources, pc, run, runs, lastOp, calls, pre>>

uiVars == <<url, summary, isLoading, error, audioBuffer>>
ctxVars == <<audioContextRef, ctxState, resumePending, ctxCreated>>
runVars == <<pc, run, runs>>

Call(op, id) == [op |-> op, id |-> id]

Snapshot ==
    [isPlaying |-> isPlaying, audioSourceRef |-> audioSourceRef,
     nSources |-> Len(sources), src |-> 0, handler |-> FALSE, stopped |-> FALSE,
     error |-> error, ctxCreated |-> ctxCreated,
     ctxAtStart |-> "-", resumePendingAtStart |-> FALSE]

\* ------------------------------------------------------ String.trim (l.47)
Trim(u) == IF u = " " THEN "" ELSE u

\* ------------------------------------------- AudioBufferSourceNode methods
\* source.stop(): a node that is playing halts and its ended event is queued
SourceStop(s) ==
    [s EXCEPT !.stopCount = @ + 1,
              !.state = IF @ = "playing" THEN "stopped" ELSE @,
              !.endedQueued = IF s.state = "playing" THEN TRUE ELSE @,
              !.stopAfterEnd = @ \/ s.handlerRan]

\* source.onended = null
SourceDetach(s) == [s EXCEPT !.onended = FALSE]

\* createBufferSource(); .buffer = b; .connect(destination); .onended = f; .start(0)
NewSource_NoConnect(b) ==
    [buffer |-> b.id, connected |-> FALSE, onended |-> TRUE,
     startCount |-> 1, startOffset |-> 0, stopCount |-> 0,
     state |-> "playing", endedQueued |-> FALSE, handlerRan |-> FALSE,
     stopAfterEnd |-> FALSE]

NewSource(b) ==
    [buffer |-> b.id, connected |-> TRUE, onended |-> TRUE,
     startCount |-> 1, startOffset |-> 0, stopCount |-> 0,
     state |-> "playing", endedQueued |-> FALSE, handlerRan |-> FALSE,
     stopAfterEnd |-> FALSE]

\* --------------------------------------------------- stopPlayback (l.36-43)
StopPlayback_NoDetach(ref, srcs) ==
    IF ref # NULL
    THEN [sources |-> [srcs EXCEPT ![ref] = SourceStop(@)],
          audioSourceRef |-> NULL, isPlaying |-> FALSE,
          calls |-> <<Call("stop", ref)>>]
    ELSE [sources |-> srcs, audioSourceRef |-> NULL, isPlaying |-> FALSE,
          calls |-> <<>>]

StopPlayback_KeepRef(ref, srcs) ==
    IF ref # NULL
    THEN [sources |-> [srcs EXCEPT ![ref] = SourceStop(SourceDetach(@))],
          audioSourceRef |-> ref, isPlaying |-> FALSE,
          calls |-> <<Call("onended=null", ref), Call("stop", ref)>>]
    ELSE [sources |-> srcs, audioSourceRef |-> NULL, isPlaying |-> FALSE,
          calls |-> <<>>]

StopPlayback(ref, srcs) ==
    IF ref # NULL
    THEN [sources |-> [srcs EXCEPT ![ref] = SourceStop(SourceDetach(@))],
          audioSourceRef |-> NULL, isPlaying |-> FALSE,
          calls |-> <<Call("onended=null", ref), Call("stop", ref)>>]
    ELSE [sources |-> srcs, audioSourceRef |-> NULL, isPlaying |-> FALSE,
          calls |-> <<>>]

\* ------------------------------------- togglePlayback, else branch (l.88-103)
StartPlayback_NoResume(buf, ctxSt, resPending, srcs) ==
    [sources |-> Append(srcs, NewSource(buf)),
     audioSourceRef |-> Len(srcs) + 1, isPlaying |-> TRUE,
     resumePending |-> resPending,
     ctxAtStart |-> ctxSt, resumePendingAtStart |-> resPending,
     calls |-> <<Call("createBufferSource", Len(srcs) + 1),
                 Call("buffer=", buf.id),
                 Call("connect", Len(srcs) + 1),
                 Call("onended=", Len(srcs) + 1),
                 Call("start", Len(srcs) + 1)>>]

StartPlayback(buf, ctxSt, resPending, srcs) ==
    LET suspended == ctxSt = "suspended"
        resPending2 == resPending \/ suspended
        id == Len(srcs) + 1
    IN  [sources |-> Append(srcs, NewSource(buf)),
         audioSourceRef |-> id, isPlaying |-> TRUE,
         resumePending |-> resPending2,
         ctxAtStart |-> ctxSt, resumePendingAtStart |-> resPending2,
         calls |-> (IF suspended THEN <<Call("resume", 0)>> ELSE <<>>)
                   \o <<Call("createBufferSource", id),
                        Call("buffer=", buf.id),
                        Call("connect", id),
                        Call("onended=", id),
                        Call("start", id)>>]

\* which branch of togglePlayback runs (l.86, l.88)
ToggleBranch_IgnorePlaying(playing, buf, ctxRef) ==
    IF buf # NoBuffer /\ ctxRef # NULL THEN "start" ELSE "noop"

ToggleBranch(playing, buf, ctxRef) ==
    IF playing THEN "stop"
    ELSE IF buf # NoBuffer /\ ctxRef # NULL THEN "start"
    ELSE "noop"

\* togglePlayback when neither branch applies (l.86-104 has no else): the
\* error state is left as it is
ToggleIgnored_SetsError(err) == "PlaybackError"

ToggleIgnored(err) == err

\* the onended closure installed by togglePlayback (l.97-100)
OnEnded_KeepRef(playing, ref) == [isPlaying |-> FALSE, audioSourceRef |-> ref]

OnEnded(playing, ref) == [isPlaying |-> FALSE, audioSourceRef |-> NULL]

\* ------------------------------------------------ services/geminiService.ts
\* summarizeArticleFromUrl: resolves with response.text or rejects
SummarizeArticleFromUrl(r) ==
    IF r = "throw" THEN [ok |-> FALSE, text |-> "", msg |-> MsgSummary]
    ELSE [ok |-> TRUE, text |-> r, msg |-> ""]

\* generateSpeechFromText: base64Audio || null, or rejects
NoPayload == [kind |-> "null", valid |-> FALSE, len |-> 0]

GenerateSpeechFromText(resp) ==
    IF resp.kind = "throw" THEN [ok |-> FALSE, value |-> NoPayload, msg |-> MsgSpeech]
    ELSE IF resp.kind \in {"undefined", "empty"}
         THEN [ok |-> TRUE, value |-> NoPayload, msg |-> ""]
    ELSE [ok |-> TRUE, value |-> resp, msg |-> ""]

\* !audioB64 (l.63): null and the empty string are falsy
IsAbsent_Never(p) == FALSE

IsAbsent(p) == p.kind \in {"null", "empty"}

\* ------------------------------------------------------------ utils/audio
\* decode(base64): the raw bytes, or DecodeError on malformed text
Decode(p) ==
    IF p.valid THEN [ok |-> TRUE, length |-> p.len] ELSE [ok |-> FALSE, length |-> 0]

\* the 16-bit samples k..n of the raw buffer, read in order, each appended to
\* the array of the channel at its interleave position
RECURSIVE Route(_, _, _, _)
Route(k, n, numChannels, chans) ==
    IF k > n THEN chans
    ELSE Route(k + 1, n, numChannels,
               [chans EXCEPT ![((k - 1) % numChannels) + 1] = Append(@, k)])

\* decodeAudioData(raw, ctx, sampleRate, numChannels): the buffer holds
\* frameCount frames; channelData[c] lists which samples of raw went to channel c
DecodeAudioData_NoTruncation(rawLen, sampleRate, numChannels, id) ==
    IF sampleRate <= 0 \/ numChannels <= 0
    THEN [ok |-> FALSE, buffer |-> NoBuffer]
    ELSE LET frameCount == rawLen \div (2 * numChannels)
         IN  [ok |-> TRUE,
              buffer |-> [id |-> id, length |-> frameCount,
                          numberOfChannels |-> numChannels, sampleRate |-> sampleRate,
                          channelData |-> Route(1, rawLen \div 2, numChannels,
                                                [c \in 1..numChannels |-> <<>>])]]

DecodeAudioData(rawLen, sampleRate, numChannels, id) ==
    IF sampleRate <= 0 \/ numChannels <= 0
    THEN [ok |-> FALSE, buffer |-> NoBuffer]
    ELSE LET frameCount == rawLen \div (2 * numChannels)
         IN  [ok |-> TRUE,
              buffer |-> [id |-> id, length |-> frameCount,
                          numberOfChannels |-> numChannels, sampleRate |-> sampleRate,
                          channelData |-> Route(1, frameCount * numChannels, numChannels,
                                                [c \in 1..numChannels |-> <<>>])]]

\* ----------------------------------------------------- handleSubmit pieces
\* !audioContextRef.current (l.67): a context is constructed only when none is held
NeedsContext_Always(ctxRef) == TRUE

NeedsContext(ctxRef) == ctxRef = NULL

\* the setState calls that open an accepted run (l.52-55)
AcceptReset_KeepBuffer(buf) ==
    [isLoading |-> TRUE, error |-> NoError, summary |-> "", audioBuffer |-> buf]

AcceptReset(buf) ==
    [isLoading |-> TRUE, error |-> NoError, summary |-> "", audioBuffer |-> NoBuffer]

\* catch + finally (l.77-82)
Fail_NoFinally(msg) == [error |-> msg, isLoading |-> TRUE]

Fail(msg) == [error |-> msg, isLoading |-> FALSE]

NoRun == [tts |-> "none", decodeCalls |-> 0, convertCalls |-> 0,
          rawLen |-> 0, numChannels |-> 0,
          result |-> [ok |-> FALSE, buffer |-> NoBuffer], outcome |-> "none"]

TypeOK ==
    /\ isLoading \in BOOLEAN
    /\ isPlaying \in BOOLEAN
    /\ audioSourceRef \in 0..Len(sources)

Init ==
    /\ url = ""
    /\ summary = ""
    /\ isLoading = FALSE
    /\ error = NoError
    /\ audioBuffer = NoBuffer
    /\ isPlaying = FALSE
    /\ audioContextRef = NULL
    /\ audioSourceRef = NULL
    /\ ctxState = "none"
    /\ resumePending = FALSE
    /\ ctxCreated = 0
    /\ sources = <<>>
    /\ pc = "idle"
    /\ run = NoRun
    /\ runs = 0
    /\ lastOp = "init"
    /\ calls = <<>>
    /\ pre = [isPlaying |-> FALSE, audioSourceRef |-> NULL, nSources |-> 0,
              src |-> 0, handler |-> FALSE, stopped |-> FALSE, error |-> NoError,
              ctxCreated |-> 0, ctxAtStart |-> "-", resumePendingAtStart |-> FALSE]


\* ----------------------------------------------------------------- actions
\* onChange of the url input (l.122), disabled while loading (l.125)
SetUrl(u) ==
    /\ ~isLoading
    /\ u # url
    /\ url' = u
    /\ UNCHANGED <<lastOp, calls, pre>>
    /\ UNCHANGED <<summary, isLoading, error, audioBuffer, isPlaying,
                   audioSourceRef, sources>>
    /\ UNCHANGED ctxVars
    /\ UNCHANGED runVars

\* handleSubmit with a blank url (l.47-50); the submit button is disabled
\* while loading (l.130)
HandleSubmitReject ==
    /\ ~isLoading
    /\ Trim(url) = ""
    /\ error' = MsgInvalidUrl
    /\ lastOp' = "handleSubmit:reject"
    /\ calls' = <<>>
    /\ pre' = Snapshot
    /\ UNCHANGED <<url, summary, isLoading, audioBuffer, isPlaying,
                   audioSourceRef, sources>>
    /\ UNCHANGED ctxVars
    /\ UNCHANGED runVars

\* handleSubmit up to its first await (l.52-59)
HandleSubmitAccept ==
    /\ ~isLoading
    /\ Trim(url) # ""
    /\ runs < MaxRuns
    /\ LET r == AcceptReset(audioBuffer)
           s == StopPlayback(audioSourceRef, sources)
       IN  /\ isLoading' = r.isLoading
           /\ error' = r.error
           /\ summary' = r.summary
           /\ audioBuffer' = r.audioBuffer
           /\ sources' = s.sources
           /\ audioSourceRef' = s.audioSourceRef
           /\ isPlaying' = s.isPlaying
           /\ calls' = s.calls \o <<Call("summarizeArticleFromUrl", runs + 1)>>
    /\ pc' = "summarize"
    /\ run' = NoRun
    /\ runs' = runs + 1
    /\ lastOp' = "handleSubmit:accept"
    /\ pre' = Snapshot
    /\ UNCHANGED url
    /\ UNCHANGED ctxVars

\* the run ends in catch + finally (l.77-82)
RunFails(msg, outcome, r) ==
    /\ error' = Fail(msg).error
    /\ isLoading' = Fail(msg).isLoading
    /\ pc' = "idle"
    /\ run' = [r EXCEPT !.outcome = outcome, !.rawLen = 0, !.numChannels = 0,
                         !.result = NoRun.result]
    /\ UNCHANGED <<audioBuffer, runs>>

\* await summarizeArticleFromUrl settles (l.59-62)
SummarizeSettles(res) ==
    /\ pc = "summarize"
    /\ LET r == SummarizeArticleFromUrl(res)
       IN  IF r.ok
           THEN /\ summary' = r.text
                /\ pc' = "speech"
                /\ calls' = <<Call("generateSpeechFromText", runs)>>
                /\ UNCHANGED <<isLoading, error, audioBuffer, run, runs>>
           ELSE /\ RunFails(r.msg, "summaryFailed", run)
                /\ calls' = <<>>
                /\ UNCHANGED summary
    /\ lastOp' = "summarizeSettles"
    /\ pre' = Snapshot
    /\ UNCHANGED <<url, isPlaying, audioSourceRef, sources>>
    /\ UNCHANGED ctxVars

\* await generateSpeechFromText settles, up to await decodeAudioData (l.62-74)
SpeechSettles(resp, newCtxState) ==
    /\ pc = "speech"
    /\ LET r == GenerateSpeechFromText(resp)
           create == NeedsContext(audioContextRef)
           bytes == Decode(r.value)
           ctxCalls == IF create THEN <<Call("new AudioContext", ctxCreated + 1)>> ELSE <<>>
       IN  IF ~r.ok
           THEN /\ RunFails(r.msg, "speechFailed", [run EXCEPT !.tts = "throw"])
                /\ calls' = <<>>
                /\ UNCHANGED ctxVars
           ELSE IF IsAbsent(r.value)
           THEN /\ RunFails(MsgNoAudio, "noAudio", [run EXCEPT !.tts = "null"])
                /\ calls' = <<>>
                /\ UNCHANGED ctxVars
           ELSE /\ IF create
                   THEN /\ audioContextRef' = ctxCreated + 1
                        /\ ctxCreated' = ctxCreated + 1
                        /\ ctxState' = newCtxState
                        /\ UNCHANGED resumePending
                   ELSE /\ newCtxState = "running"
                        /\ UNCHANGED ctxVars
                /\ IF ~bytes.ok
                   THEN /\ RunFails(MsgDecode, "decodeFailed",
                                    [run EXCEPT !.tts = r.value.kind,
                                                !.decodeCalls = @ + 1])
                        /\ calls' = ctxCalls \o <<Call("decode", runs)>>
                   ELSE /\ run' = [run EXCEPT
                                     !.tts = r.value.kind,
                                     !.decodeCalls = @ + 1,
                                     !.convertCalls = @ + 1,
                                     !.rawLen = bytes.length,
                                     !.numChannels = NUM_CHANNELS,
                                     !.result = DecodeAudioData(bytes.length, SAMPLE_RATE,
                                                                NUM_CHANNELS, runs)]
                        /\ pc' = "convert"
                        /\ calls' = ctxCalls \o <<Call("decode", runs),
                                                  Call("decodeAudioData", runs)>>
                        /\ UNCHANGED <<isLoading, error, audioBuffer, runs>>
    /\ lastOp' = "speechSettles"
    /\ pre' = Snapshot
    /\ UNCHANGED <<url, summary, isPlaying, audioSourceRef, sources>>

\* await decodeAudioData settles (l.74-82)
ConvertSettles(rejects) ==
    /\ pc = "convert"
    /\ IF rejects \/ ~run.result.ok
       THEN RunFails(MsgConversion, "convertFailed", run)
       ELSE /\ audioBuffer' = run.result.buffer
            /\ isLoading' = FALSE
            /\ pc' = "idle"
            /\ run' = [run EXCEPT !.outcome = "success", !.rawLen = 0, !.numChannels = 0,
                                  !.result = NoRun.result]
            /\ UNCHANGED <<error, runs>>
    /\ lastOp' = "convertSettles"
    /\ calls' = <<>>
    /\ pre' = Snapshot
    /\ UNCHANGED <<url, summary, isPlaying, audioSourceRef, sources>>
    /\ UNCHANGED ctxVars

\* togglePlayback (l.85-105)
TogglePlayback ==
    /\ LET b == ToggleBranch(isPlaying, audioBuffer, audioContextRef)
       IN  CASE b = "stop" ->
                   LET s == StopPlayback(audioSourceRef, sources)
                   IN  /\ sources' = s.sources
                       /\ audioSourceRef' = s.audioSourceRef
                       /\ isPlaying' = s.isPlaying
                       /\ calls' = s.calls
                       /\ lastOp' = "toggle:stop"
                       /\ pre' = Snapshot
                       /\ UNCHANGED error
                       /\ UNCHANGED ctxVars
             [] b = "start" ->
                   LET s == StartPlayback(audioBuffer, ctxState, resumePending, sources)
                   IN  /\ Len(sources) < MaxSources
                       /\ sources' = s.sources
                       /\ audioSourceRef' = s.audioSourceRef
                       /\ isPlaying' = s.isPlaying
                       /\ resumePending' = s.resumePending
                       /\ calls' = s.calls
                       /\ lastOp' = "toggle:start"
                       /\ pre' = [Snapshot EXCEPT
                                    !.ctxAtStart = s.ctxAtStart,
                                    !.resumePendingAtStart = s.resumePendingAtStart]
                       /\ UNCHANGED error
                       /\ UNCHANGED <<audioContextRef, ctxState, ctxCreated>>
             [] OTHER ->
                   /\ calls' = <<>>
                   /\ lastOp' = "toggle:noop"
                   /\ pre' = Snapshot
                   /\ error' = ToggleIgnored(error)
                   /\ UNCHANGED <<sources, audioSourceRef, isPlaying>>
                   /\ UNCHANGED ctxVars
    /\ UNCHANGED <<url, summary, isLoading, audioBuffer>>
    /\ UNCHANGED runVars

\* the device plays source i to the end of its buffer and queues its ended event
DeviceFinishes(i) ==
    /\ i \in 1..Len(sources)
    /\ sources[i].state = "playing"
    /\ ctxState = "running"
    /\ sources' = [sources EXCEPT ![i].state = "finished", ![i].endedQueued = TRUE]
    /\ UNCHANGED <<lastOp, calls, pre>>
    /\ UNCHANGED <<isPlaying, audioSourceRef>>
    /\ UNCHANGED uiVars
    /\ UNCHANGED ctxVars
    /\ UNCHANGED runVars

\* the queued ended event of source i is dispatched: its onended handler, if
\* still attached, runs (l.97-100)
EndedDispatched(i) ==
    /\ i \in 1..Len(sources)
    /\ sources[i].endedQueued
    /\ LET attached == sources[i].onended
           h == OnEnded(isPlaying, audioSourceRef)
       IN  /\ sources' = [sources EXCEPT ![i].endedQueued = FALSE,
                                         ![i].handlerRan = @ \/ attached]
           /\ isPlaying' = IF attached THEN h.isPlaying ELSE isPlaying
           /\ audioSourceRef' = IF attached THEN h.audioSourceRef ELSE audioSourceRef
           /\ pre' = [Snapshot EXCEPT !.src = i, !.handler = attached,
                                      !.stopped = sources[i].stopCount > 0]
    /\ lastOp' = "ended"
    /\ calls' = <<>>
    /\ UNCHANGED uiVars
    /\ UNCHANGED ctxVars
    /\ UNCHANGED runVars

\* the promise of audioContext.resume() (l.91) resolves
ResumeCompletes ==
    /\ resumePending
    /\ resumePending' = FALSE
    /\ ctxState' = "running"
    /\ UNCHANGED <<lastOp, calls, pre>>
    /\ UNCHANGED <<audioContextRef, ctxCreated, isPlaying, audioSourceRef, sources>>
    /\ UNCHANGED uiVars
    /\ UNCHANGED runVars

\* the platform suspends the running context
PlatformSuspends ==
    /\ ctxState = "running"
    /\ ~resumePending
    /\ ctxState' = "suspended"
    /\ UNCHANGED <<lastOp, calls, pre>>
    /\ UNCHANGED <<audioContextRef, resumePending, ctxCreated, isPlaying,
                   audioSourceRef, sources>>
    /\ UNCHANGED uiVars
    /\ UNCHANGED runVars

Next ==
    \/ \E u \in Urls : SetUrl(u)
    \/ HandleSubmitReject
    \/ HandleSubmitAccept
    \/ \E res \in SummaryResults : SummarizeSettles(res)
    \/ \E resp \in SpeechResponses, st \in CtxStates : SpeechSettles(resp, st)
    \/ \E rejects \in BOOLEAN : ConvertSettles(rejects)
    \/ TogglePlayback
    \/ \E i \in 1..MaxSources : DeviceFinishes(i)
    \/ \E i \in 1..MaxSources : EndedDispatched(i)
    \/ ResumeCompletes
    \/ PlatformSuspends

Spec == Init /\ [][Next]_vars


\* ------------------------------------------------------------- properties
SourceIds == 1..Len(sources)
Playing(i) == sources[i].state = "playing"
StopInvokers == {"toggle:stop", "handleSubmit:accept"}
Ops(cs) == {cs[k].op : k \in 1..Len(cs)}
Pos(cs, op) == CHOOSE k \in 1..Len(cs) : cs[k].op = op
RunFailures == {"summaryFailed", "speechFailed", "noAudio", "decodeFailed", "convertFailed"}
SettleOps == {"summarizeSettles", "speechSettles", "convertSettles"}

\* C1: at most one source node is started and not yet stopped or ended, and
\* it is the newest one: every earlier node was terminated before the next
\* one was started.
C1_SingleSession ==
    /\ Cardinality({i \in SourceIds : Playing(i)}) <= 1
    /\ \A i \in SourceIds : Playing(i) => i = Len(sources)

C1_Witness ==
    /\ Len(sources) = 2
    /\ sources[1].state = "stopped"
    /\ Playing(2)

\* C2: stopPlayback run while a session is held detaches onended, then calls
\* stop on that node, clears audioSourceRef and sets isPlaying false.
C2_StopWhilePlaying ==
    (lastOp \in StopInvokers /\ pre.isPlaying /\ pre.audioSourceRef # NULL) =>
        /\ Len(calls) >= 2
        /\ calls[1] = Call("onended=null", pre.audioSourceRef)
        /\ calls[2] = Call("stop", pre.audioSourceRef)
        /\ ~sources[pre.audioSourceRef].onended
        /\ ~Playing(pre.audioSourceRef)
        /\ sources[pre.audioSourceRef].stopCount = 1
        /\ audioSourceRef = NULL
        /\ ~isPlaying

C2_Witness ==
    /\ lastOp = "toggle:stop"
    /\ pre.isPlaying
    /\ pre.audioSourceRef # NULL
    /\ sources[pre.audioSourceRef].state = "stopped"

\* C3: stopPlayback run while the controller is Idle calls stop on no node,
\* creates no node and leaves the controller Idle.
C3_StopWhileIdle ==
    (lastOp \in StopInvokers /\ (~pre.isPlaying \/ pre.audioSourceRef = NULL)) =>
        /\ Ops(calls) \cap {"stop", "onended=null", "createBufferSource", "start"} = {}
        /\ Len(sources) = pre.nSources
        /\ audioSourceRef = NULL
        /\ ~isPlaying

C3_Witness ==
    /\ lastOp = "handleSubmit:accept"
    /\ ~pre.isPlaying
    /\ pre.audioSourceRef = NULL
    /\ \E i \in SourceIds : sources[i].handlerRan

\* C4: the onended handler moves the controller from Playing to Idle with no
\* stop call, and ends in the controller state stopPlayback would produce.
C4_NaturalEnd ==
    (lastOp = "ended" /\ pre.handler) =>
        /\ pre.isPlaying
        /\ pre.audioSourceRef = pre.src
        /\ ~isPlaying
        /\ audioSourceRef = NULL
        /\ calls = <<>>
        /\ sources[pre.src].stopCount = 0
        /\ isPlaying = StopPlayback(pre.audioSourceRef, sources).isPlaying
        /\ audioSourceRef = StopPlayback(pre.audioSourceRef, sources).audioSourceRef

C4_Witness ==
    /\ lastOp = "ended"
    /\ pre.handler
    /\ sources[pre.src].state = "finished"
    /\ sources[pre.src].handlerRan

\* C5: the ended event of a node that stopPlayback has stopped changes neither
\* isPlaying nor audioSourceRef.
C5_EndAfterStop ==
    (lastOp = "ended" /\ pre.stopped) =>
        /\ isPlaying = pre.isPlaying
        /\ audioSourceRef = pre.audioSourceRef
        /\ ~pre.handler

C5_Witness ==
    /\ lastOp = "ended"
    /\ pre.stopped
    /\ isPlaying
    /\ audioSourceRef # NULL
    /\ audioSourceRef # pre.src

\* C6: every node is started exactly once and stopped at most once, never
\* stopped after its onended handler ran, and never held again once it has
\* been stopped or has ended.
C6_NodeLifecycle ==
    \A i \in SourceIds :
        /\ sources[i].startCount = 1
        /\ sources[i].stopCount <= 1
        /\ ~sources[i].stopAfterEnd
        /\ (sources[i].stopCount > 0 \/ sources[i].handlerRan) => audioSourceRef # i

C6_Witness ==
    /\ Len(sources) = 2
    /\ sources[1].stopCount = 1
    /\ sources[2].handlerRan
    /\ sources[2].stopCount = 0

\* C7: togglePlayback stops when Playing; when Idle with a buffer it creates
\* one node bound to the current buffer, connected, started at offset 0, and
\* ends Playing; it does nothing only when Idle without a buffer.
C7_Toggle ==
    /\ lastOp = "toggle:stop" =>
          pre.isPlaying /\ ~isPlaying /\ audioSourceRef = NULL
    /\ lastOp = "toggle:start" =>
          /\ ~pre.isPlaying
          /\ audioBuffer # NoBuffer
          /\ Len(sources) = pre.nSources + 1
          /\ audioSourceRef = Len(sources)
          /\ sources[audioSourceRef].buffer = audioBuffer.id
          /\ sources[audioSourceRef].connected
          /\ sources[audioSourceRef].startOffset = 0
          /\ sources[audioSourceRef].startCount = 1
          /\ isPlaying
    /\ lastOp = "toggle:noop" => ~pre.isPlaying /\ audioBuffer = NoBuffer

C7_Witness ==
    /\ lastOp = "toggle:start"
    /\ Len(sources) = 2
    /\ sources[2].buffer = 2
    /\ audioBuffer.id = 2

\* C8: a start on a suspended context is preceded by a resume request in the
\* same handler; a start on a context that is not suspended issues none.
C8_ResumeBeforeStart ==
    lastOp = "toggle:start" =>
        /\ "start" \in Ops(calls)
        /\ pre.ctxAtStart \in CtxStates
        /\ pre.ctxAtStart = "suspended" =>
              "resume" \in Ops(calls) /\ Pos(calls, "resume") < Pos(calls, "start")
        /\ pre.ctxAtStart # "suspended" => "resume" \notin Ops(calls)

C8_Witness ==
    /\ lastOp = "toggle:start"
    /\ pre.ctxAtStart = "suspended"
    /\ calls[1].op = "resume"

\* C9 as claimed: every failure of handleSubmit, input rejection included,
\* leaves no session, no AudioBuffer and isLoading false.
C9_EveryFailure ==
    (\/ lastOp = "handleSubmit:reject"
     \/ (lastOp \in SettleOps /\ run.outcome \in RunFailures)) =>
        /\ ~isPlaying
        /\ audioSourceRef = NULL
        /\ audioBuffer = NoBuffer
        /\ ~isLoading

\* C9 amended: every failure of an accepted run leaves no session, no
\* AudioBuffer, an error and isLoading false; a rejected blank url only sets
\* the error and leaves the session as it was.
C9_AcceptedRunFailure ==
    /\ (pc = "idle" /\ run.outcome \in RunFailures) =>
          /\ ~isPlaying
          /\ audioSourceRef = NULL
          /\ \A i \in SourceIds : ~Playing(i)
          /\ audioBuffer = NoBuffer
          /\ ~isLoading
          /\ error # NoError
    /\ lastOp = "handleSubmit:reject" =>
          /\ isPlaying = pre.isPlaying
          /\ audioSourceRef = pre.audioSourceRef
          /\ error = MsgInvalidUrl
          /\ ~isLoading

C9_Witness ==
    /\ pc = "idle"
    /\ run.outcome = "convertFailed"
    /\ runs = 2
    /\ Len(sources) >= 1

\* C10: a run whose speech call returned no payload never calls decode or
\* decodeAudioData, sets no AudioBuffer and records an error.
C10_AbsentPayload ==
    run.tts = "null" =>
        /\ run.decodeCalls = 0
        /\ run.convertCalls = 0
        /\ audioBuffer = NoBuffer
        /\ error # NoError
        /\ pc = "idle"

C10_Witness ==
    /\ run.tts = "null"
    /\ run.outcome = "noAudio"
    /\ error = MsgNoAudio

\* C11 as claimed: togglePlayback while Idle without a buffer or a context
\* surfaces a PlaybackError.
C11_PlaybackError ==
    lastOp = "toggle:noop" => error = "PlaybackError"

\* C11 amended: togglePlayback while Idle without a buffer or a context does
\* nothing: no call, no node, still Idle, and the error is left as it was.
C11_SilentNoop ==
    lastOp = "toggle:noop" =>
        /\ ~pre.isPlaying
        /\ audioBuffer = NoBuffer \/ audioContextRef = NULL
        /\ calls = <<>>
        /\ Len(sources) = pre.nSources
        /\ ~isPlaying
        /\ audioSourceRef = NULL
        /\ error = pre.error

C11_Witness ==
    /\ lastOp = "toggle:noop"
    /\ audioBuffer = NoBuffer
    /\ error = NoError
    /\ runs = 0

\* C12: at most one AudioContext is ever constructed; it is constructed by
\* the first run that gets as far as decode, no earlier, and every later run
\* and every playback start uses that same context.
C12_OneContext ==
    /\ ctxCreated <= 1
    /\ audioContextRef = ctxCreated
    /\ (ctxCreated = 1) <=> (ctxState \in CtxStates)
    /\ run.decodeCalls > 0 => audioContextRef = 1
    /\ audioBuffer # NoBuffer => audioContextRef = 1
    /\ Len(sources) > 0 => audioContextRef = 1
    /\ (runs = 0 \/ (runs = 1 /\ pc \in {"summarize", "speech"})) => ctxCreated = 0
    /\ (lastOp = "speechSettles" /\ "new AudioContext" \in Ops(calls)) =>
          /\ pre.ctxCreated = 0
          /\ "decode" \in Ops(calls)
          /\ Pos(calls, "new AudioContext") < Pos(calls, "decode")

C12_Witness ==
    /\ runs = 2
    /\ lastOp = "speechSettles"
    /\ run.decodeCalls = 1
    /\ "new AudioContext" \notin Ops(calls)
    /\ audioContextRef = 1
    /\ Len(sources) > 0

\* ------------------------------------------- decodeAudioData on its own
\* every raw length and channel count, the invalid channel count 0 included
InitConv ==
    /\ url = ""
    /\ summary = ""
    /\ isLoading = FALSE
    /\ error = NoError
    /\ audioBuffer = NoBuffer
    /\ isPlaying = FALSE
    /\ audioContextRef = NULL
    /\ audioSourceRef = NULL
    /\ ctxState = "none"
    /\ resumePending = FALSE
    /\ ctxCreated = 0
    /\ sources = <<>>
    /\ pc = "conv:input"
    /\ \E L \in 0..MaxRawLen, C \in 0..MaxChannels :
          run = [NoRun EXCEPT !.rawLen = L, !.numChannels = C]
    /\ runs = 0
    /\ lastOp = "init"
    /\ calls = <<>>
    /\ pre = [isPlaying |-> FALSE, audioSourceRef |-> NULL, nSources |-> 0,
              src |-> 0, handler |-> FALSE, stopped |-> FALSE, error |-> NoError,
              ctxCreated |-> 0, ctxAtStart |-> "-", resumePendingAtStart |-> FALSE]

ConvertApplies ==
    /\ pc = "conv:input"
    /\ pc' = "conv:done"
    /\ run' = [run EXCEPT !.result = DecodeAudioData(run.rawLen, SAMPLE_RATE,
                                                     run.numChannels, 1)]
    /\ UNCHANGED <<url, summary, isLoading, error, audioBuffer, isPlaying,
                   audioContextRef, audioSourceRef, ctxState, resumePending,
                   ctxCreated, sources, runs, lastOp, calls, pre>>

NextConv == ConvertApplies

SpecConv == InitConv /\ [][NextConv]_vars

\* C13: for raw length L and C >= 1 channels decodeAudioData succeeds and every
\* channel array has floor(L / (2*C)) entries: a trailing incomplete frame is
\* dropped and L = 0 gives empty arrays.
C13_ChannelLength ==
    (pc = "conv:done" /\ run.numChannels >= 1) =>
        /\ run.result.ok
        /\ Len(run.result.buffer.channelData) = run.numChannels
        /\ \A c \in 1..run.numChannels :
              Len(run.result.buffer.channelData[c]) = run.rawLen \div (2 * run.numChannels)

C13_Witness ==
    /\ pc = "conv:done"
    /\ run.numChannels = 2
    /\ run.rawLen = 7
    /\ run.result.ok
    /\ Len(run.result.buffer.channelData[1]) = 1
    /\ Len(run.result.buffer.channelData[2]) = 1

\* C14 as claimed: start is never called while the resume requested for it is
\* still pending.
C14_StartAfterResume ==
    (lastOp = "toggle:start" /\ pre.ctxAtStart = "suspended") =>
        ~pre.resumePendingAtStart

\* C14 amended: on a suspended context the resume request is issued first but
\* not awaited: start is called in the same handler while that resume is
\* pending; on a context that is not suspended no resume is pending at start.
C14_StartWhileResumePending ==
    lastOp = "toggle:start" =>
        /\ pre.resumePendingAtStart <=> pre.ctxAtStart = "suspended"
        /\ pre.ctxAtStart = "suspended" =>
              /\ calls[1] = Call("resume", 0)
              /\ "start" \in Ops(calls)
              /\ Pos(calls, "start") > 1

C14_Witness ==
    /\ lastOp = "toggle:start"
    /\ pre.ctxAtStart = "suspended"
    /\ pre.resumePendingAtStart
    /\ resumePending
    /\ Playing(audioSourceRef)

\* C15: an accepted run stops the session and clears the AudioBuffer before
\* its first remote call; while it is loading nothing is playing; a playing
\* node always plays the current AudioBuffer.
C15_RunSupersedes ==
    /\ lastOp = "handleSubmit:accept" =>
          /\ calls[Len(calls)].op = "summarizeArticleFromUrl"
          /\ \A k \in 1..(Len(calls) - 1) : calls[k].op \in {"onended=null", "stop"}
          /\ pre.audioSourceRef # NULL =>
                /\ Len(calls) = 3
                /\ calls[2] = Call("stop", pre.audioSourceRef)
          /\ audioBuffer = NoBuffer
          /\ \A i \in SourceIds : ~Playing(i)
    /\ isLoading =>
          /\ ~isPlaying
          /\ audioSourceRef = NULL
          /\ audioBuffer = NoBuffer
          /\ \A i \in SourceIds : ~Playing(i)
    /\ \A i \in SourceIds :
          Playing(i) => (audioBuffer # NoBuffer /\ sources[i].buffer = audioBuffer.id)

C15_Witness ==
    /\ isLoading
    /\ pc = "convert"
    /\ runs = 2
    /\ Len(sources) >= 1
    /\ sources[1].state = "stopped"
    /\ sources[1].buffer = 1

\* C16: isPlaying is true exactly when audioSourceRef holds a node, and when
\* isPlaying is false no node is playing.
C16_FlagAgreesWithRef ==
    /\ isPlaying <=> audioSourceRef # NULL
    /\ ~isPlaying => \A i \in SourceIds : ~Playing(i)
    /\ \A i \in SourceIds : Playing(i) => audioSourceRef = i

C16_Witness ==
    /\ ~isPlaying
    /\ audioSourceRef = NULL
    /\ Len(sources) = 2
    /\ sources[1].handlerRan
    /\ sources[2].state = "stopped"
    /\ sources[2].endedQueued

\* every await of handleSubmit eventually settles
FairSpec ==
    /\ Spec
    /\ WF_vars(\E res \in SummaryResults : SummarizeSettles(res))
    /\ WF_vars(\E resp \in SpeechResponses, st \in CtxStates : SpeechSettles(resp, st))
    /\ WF_vars(\E rejects \in BOOLEAN : ConvertSettles(rejects))

\* C17: when every await settles, a run that is loading eventually stops
\* loading, with either an AudioBuffer and no error or an error and no
\* AudioBuffer.
C17_RunFinishes ==
    isLoading ~>
        (/\ ~isLoading
         /\ \/ (audioBuffer # NoBuffer /\ error = NoError)
            \/ (audioBuffer = NoBuffer /\ error # NoError))

C17_Witness ==
    /\ ~isLoading
    /\ pc = "idle"
    /\ run.outcome = "success"
    /\ audioBuffer # NoBuffer
    /\ error = NoError
    /\ runs = 2

====
